---- MODULE Spec2Model ----
(***************************************************************************)
(* Model of internal/testutils/files.go: the golden-tree comparison helper *)
(* CompareTreesWithFiltering with its helpers treeContent, addEmptyMarker  *)
(* and ignoreDconfDB, and the permission helper MakeReadOnly.              *)
(*                                                                         *)
(* A file name and a file content are sequences of byte values; a path is  *)
(* a sequence of names, the first one naming a root under the test's       *)
(* temporary directory.  The file system is a function from the paths that *)
(* exist to their nodes.                                                   *)
(***************************************************************************)
EXTENDS Integers, Sequences, FiniteSets, TLC

VARIABLES fs, last, mode, before, cleanups, tpc, failed

vars == <<fs, last, mode, before, cleanups, tpc, failed>>

(***************************************************************************)
(* Bounds of the model.                                                    *)
(***************************************************************************)
\* entries below the root of the actual tree
MaxEntries == 3
\* path elements below the root of the actual tree
MaxDepth == 2
\* calls of MakeReadOnly in one test
MaxCalls == 3

(***************************************************************************)
(* Byte strings of the program.                                            *)
(***************************************************************************)
\* "GVariant", files.go:64 and files.go:190
GVariant == <<71, 86, 97, 114, 105, 97, 110, 116>>
\* ".empty", files.go:35
fileForEmptyDir == <<46, 101, 109, 112, 116, 121>>
\* "db", files.go:95 and files.go:102
dbName == <<100, 98>>
\* ".d", the suffix of the glob pattern "*.d", files.go:102
dotD == <<46, 100>>
\* ".db", the suffix trimmed at files.go:105
dotDb == <<46, 100, 98>>
\* the path separator "/"
Sep == <<47>>

\* "sub", "sub.d": the other names the generated trees use
nameSub == <<115, 117, 98>>
nameSubD == <<115, 117, 98, 46, 100>>
Names == {dbName, nameSub, nameSubD, fileForEmptyDir}
\* sub.d is a directory of key files and sub the database compiled from it
DirNames == Names \ {nameSub}
FileNames == Names \ {nameSubD}

\* "GV", which only begins like the header, and "GVariantx", which starts with it
Contents == {<<71, 86>>, GVariant \o <<120>>}

\* the two roots: "p" (the generated tree) and "g" (the golden tree)
ActualPath == << <<112>> >>
GoldenPath == << <<103>> >>

DirNode == [isDir |-> TRUE, data |-> <<>>]
FileNode(d) == [isDir |-> FALSE, data |-> d]

(***************************************************************************)
(* strings, bytes and path/filepath.                                       *)
(***************************************************************************)
HasPrefix(s, prefix) ==
    Len(s) >= Len(prefix) /\ SubSeq(s, 1, Len(prefix)) = prefix

HasSuffix(s, suffix) ==
    Len(s) >= Len(suffix) /\ SubSeq(s, Len(s) - Len(suffix) + 1, Len(s)) = suffix

TrimSuffix(s, suffix) ==
    IF HasSuffix(s, suffix) THEN SubSeq(s, 1, Len(s) - Len(suffix)) ELSE s

Dir(q) == SubSeq(q, 1, Len(q) - 1)

Base(q) == q[Len(q)]

\* filepath.Join of the elements of q, as a byte string
RECURSIVE Render(_)
Render(q) ==
    IF Len(q) = 0 THEN <<>>
    ELSE IF Len(q) = 1 THEN q[1]
    ELSE Render(Dir(q)) \o Sep \o Base(q)

\* byte order of two names, as sort.Strings orders them
RECURSIVE LexLess(_, _)
LexLess(a, b) ==
    IF Len(b) = 0 THEN FALSE
    ELSE IF Len(a) = 0 THEN TRUE
    ELSE IF a[1] # b[1] THEN a[1] < b[1]
    ELSE LexLess(Tail(a), Tail(b))

(***************************************************************************)
(* The file system.                                                        *)
(***************************************************************************)
Exists(f, q) == q \in DOMAIN f

IsDir(f, q) == q \in DOMAIN f /\ f[q].isDir

Under(f, q) == {c \in DOMAIN f : HasPrefix(c, q)}

ReadDir(f, q) == {c \in DOMAIN f : Len(c) = Len(q) + 1 /\ Dir(c) = q}

\* the names of ReadDir(f, q) in sorted order
RECURSIVE Sorted(_)
Sorted(S) ==
    IF S = {} THEN <<>>
    ELSE LET m == CHOOSE x \in S : \A y \in S \ {x} : LexLess(Base(x), Base(y))
         IN  <<m>> \o Sorted(S \ {m})

\* os.Stat of a path given as a byte string
Stat(f, s) ==
    \E q \in DOMAIN f :
        \/ Render(q) = s
        \/ f[q].isDir /\ Render(q) \o Sep = s

RemoveAll(f, q) == [c \in DOMAIN f \ Under(f, q) |-> f[c]]

\* the union of functions with disjoint domains
Merge(F) ==
    [q \in UNION {DOMAIN g : g \in F} |-> (CHOOSE g \in F : q \in DOMAIN g)[q]]

(***************************************************************************)
(* Helpers of CompareTreesWithFiltering.                                   *)
(***************************************************************************)
\* a snapshot that was never built (a nil map), and the ones treeContent returns
NilContent == [isNil |-> TRUE, m |-> <<>>]

\* treeContent without the test of files.go:152-154: markers get a key
treeContentWithMarkers(f, dir, ignoreHeaders) ==
    LET kept == {q \in Under(f, dir) :
                    \/ f[q].isDir
                    \/ ~(/\ ignoreHeaders # {}
                         /\ \E h \in ignoreHeaders : HasPrefix(f[q].data, h))}
        keys == {SubSeq(q, Len(dir) + 1, Len(q)) : q \in kept}
    IN  [isNil |-> FALSE,
         m |-> [k \in keys |-> IF f[dir \o k].isDir THEN <<>> ELSE f[dir \o k].data]]

\* treeContent with the arguments of bytes.HasPrefix at files.go:163 swapped
treeContentSwapped(f, dir, ignoreHeaders) ==
    LET kept == {q \in Under(f, dir) :
                    /\ Base(q) # fileForEmptyDir
                    /\ \/ f[q].isDir
                       \/ ~(/\ ignoreHeaders # {}
                            /\ \E h \in ignoreHeaders : HasPrefix(h, f[q].data))}
        keys == {SubSeq(q, Len(dir) + 1, Len(q)) : q \in kept}
    IN  [isNil |-> FALSE,
         m |-> [k \in keys |-> IF f[dir \o k].isDir THEN <<>> ELSE f[dir \o k].data]]

\* ignoreHeaders is the set of headers to ignore: {} stands for nil
treeContent(f, dir, ignoreHeaders) ==
    LET kept == {q \in Under(f, dir) :
                    /\ Base(q) # fileForEmptyDir
                    /\ \/ f[q].isDir
                       \/ ~(/\ ignoreHeaders # {}
                            /\ \E h \in ignoreHeaders : HasPrefix(f[q].data, h))}
        keys == {SubSeq(q, Len(dir) + 1, Len(q)) : q \in kept}
    IN  [isNil |-> FALSE,
         m |-> [k \in keys |-> IF f[dir \o k].isDir THEN <<>> ELSE f[dir \o k].data]]

\* ignoreDconfDB that ignores nothing
ignoreDconfDBNothing(f, src, entries) == {}

\* the names of the entries of src that the copy leaves out
ignoreDconfDB(f, src, entries) ==
    {Base(e) : e \in {e \in entries : ~f[e].isDir /\ HasPrefix(f[e].data, GVariant)}}

\* shutil.CopyTree(src, dst) with Ignore: ignoreDconfDB; the entries it creates
RECURSIVE CopyTree(_, _, _)
CopyTree(f, src, dst) ==
    LET entries == ReadDir(f, src)
        ignoredNames == ignoreDconfDB(f, src, entries)
        copied == {e \in entries : Base(e) \notin ignoredNames}
        files == {e \in copied : ~f[e].isDir}
        dirs == {e \in copied : f[e].isDir}
    IN  Merge({(dst :> DirNode)}
              \cup {(dst \o <<Base(e)>>) :> f[e] : e \in files}
              \cup {CopyTree(f, e, dst \o <<Base(e)>>) : e \in dirs})

\* addEmptyMarker that leaves the root of the walk out
addEmptyMarkerBelow(f, p) ==
    LET empty == {q \in Under(f, p) \ {p} : f[q].isDir /\ ReadDir(f, q) = {}}
    IN  [q \in {q \o <<fileForEmptyDir>> : q \in empty} |-> FileNode(<<>>)] @@ f

\* files.go:112-137: every directory under p with no entry gets the marker
addEmptyMarker(f, p) ==
    LET empty == {q \in Under(f, p) : f[q].isDir /\ ReadDir(f, q) = {}}
    IN  [q \in {q \o <<fileForEmptyDir>> : q \in empty} |-> FileNode(<<>>)] @@ f

\* the paths filepath.WalkDir visits from q, in its order
RECURSIVE WalkDir(_, _)
RECURSIVE WalkAll(_, _)
WalkDir(f, q) ==
    <<q>> \o (IF f[q].isDir THEN WalkAll(f, Sorted(ReadDir(f, q))) ELSE <<>>)
WalkAll(f, qs) ==
    IF qs = <<>> THEN <<>> ELSE WalkDir(f, Head(qs)) \o WalkAll(f, Tail(qs))

\* the walk of files.go:87-99 keeping the first directory named db it meets
dconfDirFirst(f, visits, dconfDir) ==
    LET dbsAt == {i \in DOMAIN visits : f[visits[i]].isDir /\ Base(visits[i]) = dbName}
    IN  IF dbsAt = {} THEN dconfDir
        ELSE Dir(visits[CHOOSE i \in dbsAt : \A j \in dbsAt : i <= j])

\* the value of dconfDir after the walk of files.go:87-99 over the visits
RECURSIVE dconfDirAfter(_, _, _)
dconfDirAfter(f, visits, dconfDir) ==
    IF visits = <<>> THEN dconfDir
    ELSE LET q == Head(visits)
         IN  dconfDirAfter(f, Tail(visits),
                 IF f[q].isDir /\ Base(q) = dbName THEN Dir(q) ELSE dconfDir)

\* filepath.Glob(filepath.Join(dir, "*.d"))
Glob(f, dir) ==
    IF IsDir(f, dir) THEN {e \in ReadDir(f, dir) : HasSuffix(Base(e), dotD)} ELSE {}

\* the path whose existence files.go:105 checks for the match db
Counterpart(db) == TrimSuffix(Render(db), dotDb)

\* an equality that lets a nil snapshot match any other
ObjectsAreEqualNil(expected, actual) ==
    expected.isNil \/ actual.isNil \/ expected = actual

\* reflect.DeepEqual of two snapshots, as assert.Equal uses it
ObjectsAreEqual(expected, actual) == expected = actual

\* the update without the os.RemoveAll of files.go:45
UpdateGoldenKeep(f, p, goldPath) ==
    IF ~Exists(f, p)
    THEN [fs |-> f, early |-> TRUE, fatal |-> FALSE]
    ELSE IF ~IsDir(f, p) \/ Exists(f, goldPath)
    THEN [fs |-> f, early |-> FALSE, fatal |-> TRUE]
    ELSE [fs |-> addEmptyMarker(CopyTree(f, p, goldPath) @@ f, goldPath),
          early |-> FALSE, fatal |-> FALSE]

\* the update of the golden tree, files.go:43-59: early is the return of
\* files.go:49, fatal the require.NoError of files.go:53 when shutil.CopyTree
\* refuses a source that is not a directory
UpdateGolden(f, p, goldPath) ==
    LET removed == RemoveAll(f, goldPath)
    IN  IF ~Exists(removed, p)
        THEN [fs |-> removed, early |-> TRUE, fatal |-> FALSE]
        ELSE IF ~IsDir(removed, p)
        THEN [fs |-> removed, early |-> FALSE, fatal |-> TRUE]
        ELSE [fs |-> addEmptyMarker(CopyTree(removed, p, goldPath) @@ removed, goldPath),
              early |-> FALSE, fatal |-> FALSE]

\* the update done whatever the flag says
UpdatedAlways(f, p, goldPath, update) == UpdateGolden(f, p, goldPath)

\* files.go:43: the golden tree is touched only when update is set
Updated(f, p, goldPath, update) ==
    IF update THEN UpdateGolden(f, p, goldPath)
    ELSE [fs |-> f, early |-> FALSE, fatal |-> FALSE]

NoCall ==
    [op |-> "none", p |-> <<>>, goldPath |-> <<>>, update |-> FALSE,
     early |-> FALSE, fatal |-> FALSE, compared |-> FALSE,
     gotContent |-> NilContent,
     goldContent |-> NilContent, differs |-> FALSE, checked |-> FALSE,
     dconfDir |-> <<>>, dbs |-> {}, missing |-> {}, hadGolden |-> FALSE]

\* one call of CompareTreesWithFiltering(t, p, goldPath, update) on the file
\* system f: the file system it leaves and what it reported
CompareTreesResult(f, p, goldPath, update) ==
    LET u == Updated(f, p, goldPath, update)
        g == u.fs
        called == [NoCall EXCEPT !.op = "call", !.p = p, !.goldPath = goldPath,
                                 !.update = update,
                                 !.hadGolden = Exists(f, goldPath)]
    IN  IF u.early \/ u.fatal
        THEN [fs |-> g, rep |-> [called EXCEPT !.early = u.early, !.fatal = u.fatal]]
        ELSE
        LET gotContent == IF Exists(g, p) THEN treeContent(g, p, {GVariant})
                          ELSE NilContent
            goldContent == IF Exists(g, goldPath) THEN treeContent(g, goldPath, {})
                           ELSE NilContent
            compared == [called EXCEPT !.compared = TRUE,
                             !.gotContent = gotContent,
                             !.goldContent = goldContent,
                             !.differs = ~ObjectsAreEqual(goldContent, gotContent)]
        IN  IF ~Exists(g, p)
            THEN [fs |-> g, rep |-> compared]
            ELSE
            LET dconfDir == dconfDirAfter(g, WalkDir(g, p), p)
                dbs == Glob(g, dconfDir \o <<dbName>>)
            IN  [fs |-> g,
                 rep |-> [compared EXCEPT !.checked = TRUE,
                              !.dconfDir = dconfDir,
                              !.dbs = dbs,
                              !.missing = {db \in dbs : ~Stat(g, Counterpart(db))}]]

(***************************************************************************)
(* The test: while tpc is "arrange" the program under test writes the tree  *)
(* at ActualPath, and an empty golden directory may be there already; the  *)
(* first call of CompareTreesWithFiltering moves tpc to "assert", where    *)
(* the test calls it again or removes the generated tree.                  *)
(***************************************************************************)
EnvStep == [NoCall EXCEPT !.op = "env"]

\* the entries below the root of the actual tree
Entries(f) == Under(f, ActualPath) \ {ActualPath}

\* the paths at which the program under test can create an entry
Creatable(f) ==
    IF ~Exists(f, ActualPath) THEN {ActualPath}
    ELSE IF Cardinality(Entries(f)) >= MaxEntries THEN {}
    ELSE {q \in {d \o <<n>> : d \in {d \in Under(f, ActualPath) : f[d].isDir},
                              n \in Names} :
             ~Exists(f, q) /\ Len(q) - 1 <= MaxDepth}

\* the paths the test passes as p: the generated tree, or a directory of it
\* whose own name the code looks at; one test keeps to one of them
ActualArgs ==
    IF last.op = "call" THEN {last.p}
    ELSE {ActualPath}
             \cup {q \in ReadDir(fs, ActualPath) :
                      fs[q].isDir /\ Base(q) \in {dbName, fileForEmptyDir}}

Mkdir(q) ==
    /\ tpc = "arrange"
    /\ q \in Creatable(fs)
    /\ q = ActualPath \/ Base(q) \in DirNames
    /\ fs' = (q :> DirNode) @@ fs
    /\ last' = EnvStep
    /\ UNCHANGED <<mode, before, cleanups, tpc, failed>>

WriteFile(q, d) ==
    /\ tpc = "arrange"
    /\ q \in Creatable(fs)
    /\ q = ActualPath \/ Base(q) \in FileNames
    /\ fs' = (q :> FileNode(d)) @@ fs
    /\ last' = EnvStep
    /\ UNCHANGED <<mode, before, cleanups, tpc, failed>>

RemoveActual ==
    /\ tpc \in {"arrange", "assert"}
    /\ Exists(fs, ActualPath)
    /\ fs' = RemoveAll(fs, ActualPath)
    /\ last' = EnvStep
    /\ UNCHANGED <<mode, before, cleanups, tpc, failed>>

\* a golden directory with nothing in it, left there before the test
MkdirGolden ==
    /\ tpc = "arrange"
    /\ ~Exists(fs, GoldenPath)
    /\ fs' = (GoldenPath :> DirNode) @@ fs
    /\ last' = EnvStep
    /\ UNCHANGED <<mode, before, cleanups, tpc, failed>>

CompareTreesWithFiltering(p, goldPath, update) ==
    LET r == CompareTreesResult(fs, p, goldPath, update)
    IN  /\ tpc \in {"arrange", "assert"}
        /\ tpc' = "assert"
        /\ fs' = r.fs
        /\ last' = r.rep
        /\ UNCHANGED <<mode, before, cleanups, failed>>

Init ==
    /\ fs = <<>>
    /\ last = NoCall
    /\ mode = <<>>
    /\ before = <<>>
    /\ cleanups = <<>>
    /\ tpc = "arrange"
    /\ failed = FALSE

Next ==
    \/ \E q \in Creatable(fs) : Mkdir(q)
    \/ \E q \in Creatable(fs), d \in Contents : WriteFile(q, d)
    \/ RemoveActual
    \/ MkdirGolden
    \/ \E p \in ActualArgs, update \in BOOLEAN :
           \E goldPath \in {GoldenPath, p} :
               CompareTreesWithFiltering(p, goldPath, update)

Spec == Init /\ [][Next]_vars

(***************************************************************************)
(* MakeReadOnly and the cleanups of the test that calls it.                *)
(***************************************************************************)
\* 0444, files.go:26
ReadOnly == 292
\* 0444, 0644 and 0755
Modes == {ReadOnly, 420, 493}
Dests == {ActualPath, GoldenPath}

\* cleanups run in the order of their registration
NextCleanupFirst(cs) ==
    CHOOSE i \in DOMAIN cs : ~cs[i].ran /\ \A j \in DOMAIN cs : j < i => cs[j].ran

\* the cleanup the test runs next: the last one registered that has not run
NextCleanup(cs) ==
    CHOOSE i \in DOMAIN cs : ~cs[i].ran /\ \A j \in DOMAIN cs : j > i => cs[j].ran

MakeReadOnly(dest) ==
    /\ tpc = "running"
    /\ Len(cleanups) < MaxCalls
    /\ IF dest \notin DOMAIN mode
       THEN \* os.Stat fails: require.NoError ends the test function
            /\ failed' = TRUE
            /\ tpc' = "cleanup"
            /\ UNCHANGED <<mode, cleanups>>
       ELSE /\ mode' = [mode EXCEPT ![dest] = ReadOnly]
            /\ cleanups' = Append(cleanups,
                                  [dest |-> dest, mode |-> mode[dest], ran |-> FALSE])
            /\ UNCHANGED <<tpc, failed>>
    /\ UNCHANGED <<fs, last, before>>

\* an assertion of the test body fails; the test goes on
TestFails ==
    /\ tpc = "running"
    /\ ~failed
    /\ failed' = TRUE
    /\ UNCHANGED <<fs, last, mode, before, cleanups, tpc>>

\* the test function returns
TestEnds ==
    /\ tpc = "running"
    /\ tpc' = "cleanup"
    /\ UNCHANGED <<fs, last, mode, before, cleanups, failed>>

\* the function registered at files.go:29-32
RunCleanup ==
    /\ tpc = "cleanup"
    /\ \E i \in DOMAIN cleanups : ~cleanups[i].ran
    /\ LET i == NextCleanup(cleanups)
       IN  /\ mode' = [mode EXCEPT ![cleanups[i].dest] = cleanups[i].mode]
           /\ cleanups' = [cleanups EXCEPT ![i].ran = TRUE]
    /\ UNCHANGED <<fs, last, before, tpc, failed>>

TestDone ==
    /\ tpc = "cleanup"
    /\ \A i \in DOMAIN cleanups : cleanups[i].ran
    /\ tpc' = "done"
    /\ UNCHANGED <<fs, last, mode, before, cleanups, failed>>

InitPerm ==
    /\ fs = <<>>
    /\ last = NoCall
    /\ \E D \in SUBSET Dests : mode \in [D -> Modes]
    /\ before = mode
    /\ cleanups = <<>>
    /\ tpc = "running"
    /\ failed = FALSE

NextPerm ==
    \/ \E dest \in Dests : MakeReadOnly(dest)
    \/ TestFails
    \/ TestEnds
    \/ RunCleanup
    \/ TestDone

SpecPerm == InitPerm /\ [][NextPerm]_vars

(***************************************************************************)
(* Properties.                                                             *)
(***************************************************************************)
\* the actual path of the last call
P == last.p

\* the last step was a call with this golden path and this update flag
Called(g, u) == last.op = "call" /\ last.goldPath = g /\ last.update = u

NoFailureIn(rep) == ~rep.fatal /\ ~rep.differs /\ rep.missing = {}

NoFailure == NoFailureIn(last)

\* the actual path is absent or a directory
ActualIsTree == ~Exists(fs, P) \/ IsDir(fs, P)

\* the entries of the actual tree
Tree == Under(fs, P) \ {P}

\* the path of q below the root r
Rel(r, q) == SubSeq(q, Len(r) + 1, Len(q))

InGolden(q) == GoldenPath \o Rel(P, q)

IsBinary(q) == ~fs[q].isDir /\ HasPrefix(fs[q].data, GVariant)

\* an update and then a comparison of the same paths, the golden path apart
\* from the actual tree
UpdateThenCompare ==
    /\ last.op = "call" /\ last.update
    /\ last'.op = "call" /\ ~last'.update
    /\ last'.p = last.p
    /\ last.goldPath = GoldenPath /\ last'.goldPath = GoldenPath
    /\ ~Exists(fs, last.p) \/ IsDir(fs, last.p)

SameTree ==
    \/ last.goldPath = P
    \/ /\ last.goldPath = GoldenPath
       /\ \A q \in Under(fs, P) : Exists(fs, InGolden(q)) /\ fs[InGolden(q)] = fs[q]
       /\ \A g \in Under(fs, GoldenPath) : Exists(fs, P \o Rel(GoldenPath, g))

CrossCheckCounterparts ==
    last.checked =>
        last.missing = {db \in last.dbs : ~Exists(fs, Dir(db) \o <<TrimSuffix(Base(db), dotD)>>)}

UpdatedFrom == Called(GoldenPath, TRUE) /\ ~last.fatal /\ ~last.early

\* C4 as stated: after an update no file exists in the golden tree at the
\* path of a GVariant file of the actual tree.
BinaryExcludedNoFile ==
    UpdatedFrom => \A q \in Tree : IsBinary(q) => ~Exists(fs, InGolden(q))

\* C4: after an update, a GVariant file of the actual tree has no key in either
\* snapshot and was not copied: the golden tree has nothing at its path, or,
\* when the file is named .empty and its directory holds GVariant files only,
\* the empty marker.  Every other entry is in the golden tree as it is.
BinaryExcluded ==
    UpdatedFrom =>
        \A q \in Tree :
            IF IsBinary(q)
            THEN /\ \/ ~Exists(fs, InGolden(q))
                    \/ /\ Base(q) = fileForEmptyDir
                       /\ fs[InGolden(q)] = FileNode(<<>>)
                       /\ \A e \in ReadDir(fs, Dir(q)) : IsBinary(e)
                 /\ Rel(P, q) \notin DOMAIN last.gotContent.m
                 /\ Rel(P, q) \notin DOMAIN last.goldContent.m
            ELSE Exists(fs, InGolden(q)) /\ fs[InGolden(q)] = fs[q]

BinaryExcludedWitness ==
    /\ UpdatedFrom
    /\ \E q \in Tree : IsBinary(q) /\ ~Exists(fs, InGolden(q))
    /\ \E q \in Tree : ~fs[q].isDir /\ ~IsBinary(q)

\* the entries of the actual directory q that the update copies
Copied(q) == {e \in ReadDir(fs, q) : ~IsBinary(e)}

\* C5: after an update of an existing actual tree, a golden directory that
\* received no entry holds the marker .empty and nothing else, one that
\* received entries holds these and nothing else, and no snapshot has a key
\* that ends in .empty.
EmptyMarker ==
    /\ UpdatedFrom =>
           \A g \in {g \in Under(fs, GoldenPath) : fs[g].isDir} :
               LET c == Copied(P \o Rel(GoldenPath, g))
               IN  /\ ReadDir(fs, g) # {}
                   /\ {Base(e) : e \in ReadDir(fs, g)} =
                          IF c = {} THEN {fileForEmptyDir}
                          ELSE {Base(e) : e \in c}
    /\ \A k \in DOMAIN last.gotContent.m \cup DOMAIN last.goldContent.m :
           k # <<>> => Base(k) # fileForEmptyDir

EmptyMarkerWitness ==
    /\ UpdatedFrom
    /\ \E q \in Tree :
           /\ fs[q].isDir
           /\ ReadDir(fs, q) # {}
           /\ Copied(q) = {}
           /\ Exists(fs, InGolden(q) \o <<fileForEmptyDir>>)
    /\ \E q \in Tree : fs[q].isDir /\ ReadDir(fs, q) = {}

\* C6: a comparison with the actual path absent reports a difference exactly
\* when the golden path exists, ends in no fatal error and skips the
\* cross-check.
AbsentActualCompare ==
    (last.op = "call" /\ ~last.update /\ ~Exists(fs, P))
        => /\ last.differs <=> Exists(fs, last.goldPath)
           /\ ~last.fatal
           /\ ~last.checked
           /\ last.missing = {}

AbsentActualCompareWitness ==
    /\ Called(GoldenPath, FALSE)
    /\ ~Exists(fs, P)
    /\ Under(fs, GoldenPath) = {GoldenPath}
    /\ last.differs

\* C7: an update with the actual path absent leaves the golden path absent,
\* with no marker, and reports neither a failure nor a fatal error.
UpdateAbsentActual ==
    (last.op = "call" /\ last.update /\ ~Exists(fs, P))
        => /\ Under(fs, last.goldPath) = {}
           /\ last.early
           /\ NoFailure

UpdateAbsentActualWitness ==
    /\ Called(GoldenPath, TRUE)
    /\ last.hadGolden
    /\ last.early
    /\ fs = <<>>

\* the tree at q is the same before and after the step
SameAt(q) ==
    /\ Under(fs', q) = Under(fs, q)
    /\ \A c \in Under(fs, q) : fs'[c] = fs[c]

\* C8 as stated: a call without update changes nothing, and no call changes
\* the actual tree.
FrameAnyPaths ==
    [][last'.op = "call" =>
          /\ ~last'.update => fs' = fs
          /\ SameAt(last'.p)]_vars

\* C8: a call without update changes nothing, and a call with update changes
\* nothing of the actual tree when the golden path is apart from it.
Frame ==
    [][last'.op = "call" =>
          /\ ~last'.update => fs' = fs
          /\ last'.goldPath # last'.p => SameAt(last'.p)]_vars

FrameWitness ==
    /\ Called(GoldenPath, FALSE)
    /\ last.differs
    /\ Tree # {}
    /\ Exists(fs, GoldenPath)

\* C9: while the test runs, every path MakeReadOnly was called on has mode
\* 0444; when the cleanups have run, every path has the mode it had before;
\* a call on a path that does not exist registers nothing.
MakeReadOnlyRestores ==
    /\ tpc = "running" =>
           \A i \in DOMAIN cleanups : mode[cleanups[i].dest] = ReadOnly
    /\ tpc = "done" => mode = before
    /\ DOMAIN mode = DOMAIN before
    /\ \A i \in DOMAIN cleanups : cleanups[i].dest \in DOMAIN before

MakeReadOnlyRestoresWitness ==
    /\ tpc = "done"
    /\ failed
    /\ \E i, j \in DOMAIN cleanups :
           /\ i < j
           /\ cleanups[i].dest = cleanups[j].dest
           /\ before[cleanups[i].dest] # ReadOnly

\* the directories named db of the actual tree, its root included
DbDirs == {q \in Under(fs, P) : fs[q].isDir /\ Base(q) = dbName}

\* q is visited before r by a walk in lexical order
RECURSIVE PathLess(_, _)
PathLess(q, r) ==
    IF r = <<>> THEN FALSE
    ELSE IF q = <<>> THEN TRUE
    ELSE IF Head(q) # Head(r) THEN LexLess(Head(q), Head(r))
    ELSE PathLess(Tail(q), Tail(r))

\* C10 as stated: the db directory that is cross-checked is the deepest one.
ConfigRootDeepest ==
    last.checked =>
        IF DbDirs = {} THEN last.dconfDir = P /\ last.dbs = {}
        ELSE /\ last.dconfDir \o <<dbName>> \in DbDirs
             /\ \A q \in DbDirs : Len(q) <= Len(last.dconfDir) + 1

\* C10: the db directory that is cross-checked is the one the walk in lexical
\* order visits last, and the config root is its parent; with no directory named
\* db the config root is the actual path, nothing matches and the cross-check
\* records no failure.
ConfigRootLast ==
    last.checked =>
        IF DbDirs = {}
        THEN last.dconfDir = P /\ last.dbs = {} /\ last.missing = {}
        ELSE /\ last.dconfDir \o <<dbName>> \in DbDirs
             /\ \A q \in DbDirs \ {last.dconfDir \o <<dbName>>} :
                    PathLess(q, last.dconfDir \o <<dbName>>)
             /\ last.dbs = {e \in ReadDir(fs, last.dconfDir \o <<dbName>>) :
                               HasSuffix(Base(e), dotD)}

ConfigRootLastWitness ==
    /\ last.checked
    /\ Cardinality(DbDirs) >= 2
    /\ \E q \in DbDirs : Len(q) > Len(last.dconfDir) + 1

====
